---------------------------- MODULE Spec2Model ----------------------------
(***************************************************************************)
(* Byte-pair-encoding tokenizer of lectures/01-tokenization.ipynb:         *)
(* merge, train_bpe, BPETokenizer.encode and BPETokenizer.decode.          *)
(*                                                                         *)
(* A str is a sequence of Unicode code points, a bytes value a sequence of *)
(* integers 0..255, a list[int] a sequence of integers.  A dict is kept in *)
(* insertion order: vocab as a function on its key set (its order is never *)
(* read), merges and counts as sequences of [key, value] entries.          *)
(***************************************************************************)
EXTENDS Integers, Sequences, FiniteSets, TLC

VARIABLES
    string,         \* train_bpe: the corpus argument
    num_merges,     \* train_bpe: the num_merges argument
    indices,        \* train_bpe: the current token list
    merges,         \* train_bpe: dict (index1, index2) -> merged index
    vocab,          \* train_bpe: dict index -> bytes
    i,              \* train_bpe: the loop variable (iterations completed)
    counts,         \* train_bpe: the pair-count table of the last iteration
    pair,           \* train_bpe: the pair selected by the last iteration
    pc,             \* position of the program
    err,            \* the exception that ended the program, or "none"
    text,           \* BPETokenizer.encode: the string argument
    enc_indices,    \* BPETokenizer.encode: the current token list
    enc_k,          \* BPETokenizer.encode: merge rules applied so far
    dec_src,        \* where decode's argument came from: "encode" | "caller"
    dec_in,         \* BPETokenizer.decode: the indices argument
    dec_out,        \* BPETokenizer.decode: the outcome
    m_indices,      \* merge: the indices argument
    m_pair,         \* merge: the pair argument
    m_new_index,    \* merge: the new_index argument
    m_i,            \* merge: the cursor i (0-based, as in the code)
    m_new_indices   \* merge: the list built so far

vars == <<string, num_merges, indices, merges, vocab, i, counts, pair, pc, err,
          text, enc_indices, enc_k, dec_src, dec_in, dec_out,
          m_indices, m_pair, m_new_index, m_i, m_new_indices>>

trainVars == <<string, num_merges, indices, merges, vocab, i, counts, pair>>
encVars   == <<text, enc_indices, enc_k>>
decVars   == <<dec_src, dec_in, dec_out>>
mergeVars == <<m_indices, m_pair, m_new_index, m_i, m_new_indices>>

---------------------------------------------------------------------------
(* Bounds of the model *)

MaxLen == 3         \* code points in a training corpus
MaxTextLen == 2     \* code points in a text given to encode
MaxMerges == 3      \* largest num_merges
MaxSeqLen == 4      \* length of a list given to merge on its own
MaxDecLen == 2      \* length of a token list a caller hands to decode

\* 'a', e-acute (2 bytes in UTF-8), euro sign (3 bytes)
Chars == {97, 233, 8364}

SeqsUpTo(S, n) == UNION {[1..k -> S] : k \in 0..n}

Range(s) == {s[k] : k \in 1..Len(s)}

---------------------------------------------------------------------------
(* str.encode("utf-8") and bytes.decode("utf-8") *)

Utf8Char(cp) ==
    IF cp < 128 THEN <<cp>>
    ELSE IF cp < 2048 THEN <<192 + (cp \div 64), 128 + (cp % 64)>>
    ELSE IF cp < 65536 THEN
        <<224 + (cp \div 4096), 128 + ((cp \div 64) % 64), 128 + (cp % 64)>>
    ELSE <<240 + (cp \div 262144), 128 + ((cp \div 4096) % 64),
           128 + ((cp \div 64) % 64), 128 + (cp % 64)>>

RECURSIVE Utf8Encode(_)
Utf8Encode(s) ==
    IF s = <<>> THEN <<>> ELSE Utf8Char(Head(s)) \o Utf8Encode(Tail(s))

IsCont(b, k) == k <= Len(b) /\ b[k] >= 128 /\ b[k] <= 191

\* Length of the well-formed UTF-8 sequence that starts b, or 0 if none does.
Utf8Width(b) ==
    LET b1 == b[1] IN
    IF b1 < 128 THEN 1
    ELSE IF b1 >= 194 /\ b1 <= 223 THEN (IF IsCont(b, 2) THEN 2 ELSE 0)
    ELSE IF b1 >= 224 /\ b1 <= 239 THEN
        (IF /\ IsCont(b, 2) /\ IsCont(b, 3)
            /\ (b1 = 224 => b[2] >= 160)
            /\ (b1 = 237 => b[2] <= 159)
         THEN 3 ELSE 0)
    ELSE IF b1 >= 240 /\ b1 <= 244 THEN
        (IF /\ IsCont(b, 2) /\ IsCont(b, 3) /\ IsCont(b, 4)
            /\ (b1 = 240 => b[2] >= 144)
            /\ (b1 = 244 => b[2] <= 143)
         THEN 4 ELSE 0)
    ELSE 0

Utf8CodePoint(b, w) ==
    IF w = 1 THEN b[1]
    ELSE IF w = 2 THEN (b[1] - 192) * 64 + (b[2] - 128)
    ELSE IF w = 3 THEN (b[1] - 224) * 4096 + (b[2] - 128) * 64 + (b[3] - 128)
    ELSE (b[1] - 240) * 262144 + (b[2] - 128) * 4096
         + (b[3] - 128) * 64 + (b[4] - 128)

\* [ok |-> TRUE, str |-> s] or, for a UnicodeDecodeError, [ok |-> FALSE, ...]
RECURSIVE Utf8Decode(_)
Utf8Decode(b) ==
    IF b = <<>> THEN [ok |-> TRUE, str |-> <<>>]
    ELSE LET w == Utf8Width(b) IN
         IF w = 0 THEN [ok |-> FALSE, str |-> <<>>]
         ELSE LET rest == Utf8Decode(SubSeq(b, w + 1, Len(b))) IN
              IF rest.ok
              THEN [ok |-> TRUE, str |-> <<Utf8CodePoint(b, w)>> \o rest.str]
              ELSE rest

---------------------------------------------------------------------------
(* merge(indices, pair, new_index) *)

\* the test of the if in merge's loop, at 0-based cursor c
MergeMatch(ind, p, c) ==
    c + 1 < Len(ind) /\ ind[c + 1] = p[1] /\ ind[c + 2] = p[2]

\* variant of MergeStep: a match does not skip its second element (i += 1)
MergeStepOverlap(ind, p, new_index, c, out) ==
    IF MergeMatch(ind, p, c)
    THEN [i |-> c + 1, new_indices |-> Append(out, new_index)]
    ELSE [i |-> c + 1, new_indices |-> Append(out, ind[c + 1])]

\* one pass of merge's while loop at 0-based cursor c with out built so far
MergeStep(ind, p, new_index, c, out) ==
    IF MergeMatch(ind, p, c)
    THEN [i |-> c + 2, new_indices |-> Append(out, new_index)]
    ELSE [i |-> c + 1, new_indices |-> Append(out, ind[c + 1])]

\* the while loop run to its end from cursor c
RECURSIVE MergeRun(_, _, _, _, _)
MergeRun(ind, p, new_index, c, out) ==
    IF ~(c < Len(ind)) THEN out
    ELSE LET s == MergeStep(ind, p, new_index, c, out)
         IN MergeRun(ind, p, new_index, s.i, s.new_indices)

\* variant of MergeRun: the loop condition is i+1 < len(indices), so the
\* last element is lost
RECURSIVE MergeRunDropLast(_, _, _, _, _)
MergeRunDropLast(ind, p, new_index, c, out) ==
    IF ~(c + 1 < Len(ind)) THEN out
    ELSE LET s == MergeStep(ind, p, new_index, c, out)
         IN MergeRunDropLast(ind, p, new_index, s.i, s.new_indices)

\* variant of merge that runs MergeRunDropLast
mergeDropLast(ind, p, new_index) == MergeRunDropLast(ind, p, new_index, 0, <<>>)

merge(ind, p, new_index) == MergeRun(ind, p, new_index, 0, <<>>)

---------------------------------------------------------------------------
(* dict operations *)

\* d[k] = v on an insertion-ordered dict kept as a sequence of entries
DictSet(d, k, v) ==
    IF \E n \in 1..Len(d) : d[n].key = k
    THEN [n \in 1..Len(d) |->
            IF d[n].key = k THEN [key |-> k, value |-> v] ELSE d[n]]
    ELSE Append(d, [key |-> k, value |-> v])

Keys(d) == {d[n].key : n \in 1..Len(d)}

\* d[k] of a key d holds
DictGet(d, k) == d[CHOOSE n \in 1..Len(d) : d[n].key = k].value

\* d[k] of a defaultdict(int): 0 for a key d does not hold yet
DefaultGet(d, k) == IF k \in Keys(d) THEN DictGet(d, k) ELSE 0

\* vocab[k] = v on the dict index -> bytes
VocabSet(v, k, b) == [x \in (DOMAIN v) \cup {k} |-> IF x = k THEN b ELSE v[x]]

---------------------------------------------------------------------------
(* train_bpe *)

BaseVocabSize == 256

\* {x: bytes([x]) for x in range(256)}
BaseVocab == [x \in 0..(BaseVocabSize - 1) |-> <<x>>]

\* counts after the counting loop has seen the first n adjacent pairs
RECURSIVE CountPairsUpTo(_, _)
CountPairsUpTo(ind, n) ==
    IF n = 0 THEN <<>>
    ELSE LET c == CountPairsUpTo(ind, n - 1)
             k == <<ind[n], ind[n + 1]>>
         IN DictSet(c, k, DefaultGet(c, k) + 1)

CountPairs(ind) == CountPairsUpTo(ind, IF Len(ind) = 0 THEN 0 ELSE Len(ind) - 1)

\* variant of MaxKey: a max that keeps the last of the keys of the largest
\* count (a comparison with >= instead of >)
MaxKeyLast(c) ==
    LET n == CHOOSE n \in 1..Len(c) :
                /\ \A m \in 1..Len(c) : c[m].value <= c[n].value
                /\ \A m \in (n + 1)..Len(c) : c[m].value < c[n].value
    IN c[n].key

\* max(counts, key=counts.get): the first key, in iteration order, whose
\* count no other key's count exceeds
MaxKey(c) ==
    LET n == CHOOSE n \in 1..Len(c) :
                /\ \A m \in 1..Len(c) : c[m].value <= c[n].value
                /\ \A m \in 1..(n - 1) : c[m].value < c[n].value
    IN c[n].key

\* variant of NewIndex: the loop variable is left out
NewIndexConst(j) == BaseVocabSize

\* new_index = 256 + i
NewIndex(j) == BaseVocabSize + j

\* variant of NewVocabEntry: the operands exchanged
NewVocabEntrySwapped(v, index1, index2) == v[index2] \o v[index1]

\* vocab[index1] + vocab[index2]
NewVocabEntry(v, index1, index2) == v[index1] \o v[index2]

\* list(map(int, string.encode("utf-8")))
TrainInit(s) == Utf8Encode(s)

\* one iteration of the for loop whose counts is not empty
TrainIterMerge ==
    /\ pc = "train"
    /\ i < num_merges
    /\ LET c == CountPairs(indices) IN
       /\ c # <<>>
       /\ LET p == MaxKey(c)
              new_index == NewIndex(i)
          IN /\ counts' = c
             /\ pair' = p
             /\ merges' = DictSet(merges, p, new_index)
             /\ vocab' = VocabSet(vocab, new_index,
                                  NewVocabEntry(vocab, p[1], p[2]))
             /\ indices' = merge(indices, p, new_index)
    /\ i' = i + 1
    /\ UNCHANGED <<string, num_merges, pc, err>>
    /\ UNCHANGED <<encVars, decVars, mergeVars>>

\* an iteration of the for loop whose counts is empty: max() raises
TrainIterRaise ==
    /\ pc = "train"
    /\ i < num_merges
    /\ CountPairs(indices) = <<>>
    /\ counts' = <<>>
    /\ pc' = "raised"
    /\ err' = "ValueError"
    /\ UNCHANGED <<string, num_merges, indices, merges, vocab, i, pair>>
    /\ UNCHANGED <<encVars, decVars, mergeVars>>

\* the loop is exhausted: return BPETokenizerParams(vocab, merges)
TrainReturn ==
    /\ pc = "train"
    /\ i = num_merges
    /\ pc' = "trained"
    /\ UNCHANGED <<trainVars, err, encVars, decVars, mergeVars>>

NoPair == <<0, 0>>

Init ==
    /\ string \in SeqsUpTo(Chars, MaxLen)
    /\ num_merges \in 0..MaxMerges
    /\ indices = TrainInit(string)
    /\ merges = <<>>
    /\ vocab = BaseVocab
    /\ i = 0
    /\ counts = <<>>
    /\ pair = NoPair
    /\ pc = "train"
    /\ err = "none"
    /\ text = <<>>
    /\ enc_indices = <<>>
    /\ enc_k = 0
    /\ dec_src = "none"
    /\ dec_in = <<>>
    /\ dec_out = [kind |-> "none", error |-> "none", at |-> "none", str |-> <<>>]
    /\ m_indices = <<>>
    /\ m_pair = NoPair
    /\ m_new_index = 0
    /\ m_i = 0
    /\ m_new_indices = <<>>

---------------------------------------------------------------------------
(* BPETokenizer.encode *)

\* 'a', euro sign, earth globe (4 bytes in UTF-8)
TextChars == {97, 8364, 127757}

TextsToEncode == SeqsUpTo(TextChars, MaxTextLen)

\* variant of EncodeInit: [ord(c) for c in string], as
\* CharacterTokenizer.encode does
EncodeInitCodePoints(s) == s

\* list(map(int, string.encode("utf-8")))
EncodeInit(s) == Utf8Encode(s)

\* variant of RuleAt: the items taken newest first
RuleAtReversed(m, k) == m[Len(m) + 1 - k]

\* the k-th item (1-based) of self.params.merges.items()
RuleAt(m, k) == m[k]

\* encode is called on a tokenizer built from the returned params
EncodeStart ==
    /\ pc = "trained"
    /\ \E s \in TextsToEncode \cup {string} :
         /\ text' = s
         /\ enc_indices' = EncodeInit(s)
    /\ enc_k' = 0
    /\ pc' = "encode"
    /\ UNCHANGED <<trainVars, err, decVars, mergeVars>>

\* one iteration of the loop over the merge rules
EncodeIter ==
    /\ pc = "encode"
    /\ enc_k < Len(merges)
    /\ LET rule == RuleAt(merges, enc_k + 1)
       IN enc_indices' = merge(enc_indices, rule.key, rule.value)
    /\ enc_k' = enc_k + 1
    /\ UNCHANGED <<trainVars, pc, err, text, decVars, mergeVars>>

EncodeReturn ==
    /\ pc = "encode"
    /\ enc_k = Len(merges)
    /\ pc' = "encoded"
    /\ UNCHANGED <<trainVars, err, encVars, decVars, mergeVars>>

---------------------------------------------------------------------------
(* BPETokenizer.decode *)

\* self.params.vocab.get(t): the bytes of t, or None
VocabGet(v, t) ==
    IF t \in DOMAIN v THEN [none |-> FALSE, bytes |-> v[t]]
    ELSE [none |-> TRUE, bytes |-> <<>>]

\* list(map(self.params.vocab.get, indices))
BytesList(v, ind) == [n \in 1..Len(ind) |-> VocabGet(v, ind[n])]

\* b"".join(bytes_list) of a list that holds no None
RECURSIVE Join(_)
Join(bl) == IF bl = <<>> THEN <<>> ELSE Head(bl).bytes \o Join(Tail(bl))

Outcome(k, e, a, s) == [kind |-> k, error |-> e, at |-> a, str |-> s]

Decode(v, ind) ==
    LET bytes_list == BytesList(v, ind) IN
    IF \E n \in 1..Len(bytes_list) : bytes_list[n].none
    THEN Outcome("raised", "TypeError", "join", <<>>)
    ELSE LET d == Utf8Decode(Join(bytes_list)) IN
         IF d.ok THEN Outcome("returned", "none", "none", d.str)
         ELSE Outcome("raised", "UnicodeDecodeError", "decode", <<>>)

\* a token id no training of at most MaxMerges merges puts in vocab
AbsentToken == BaseVocabSize + MaxMerges + 1

\* 'a', a UTF-8 lead byte, the first learned id, an id never learned
ProbeTokens == {97, 195, BaseVocabSize, AbsentToken}

DecodeDone(src, ind) ==
    LET out == Decode(vocab, ind) IN
    /\ dec_src' = src
    /\ dec_in' = ind
    /\ dec_out' = out
    /\ pc' = IF out.kind = "raised" THEN "raised" ELSE "decoded"
    /\ err' = out.error
    /\ UNCHANGED <<trainVars, encVars, mergeVars>>

\* reconstructed_string = tokenizer.decode(tokenizer.encode(string))
DecodeEncoded ==
    /\ pc = "encoded"
    /\ DecodeDone("encode", enc_indices)

\* decode of a token list the caller made up
DecodeCaller ==
    /\ pc = "trained"
    /\ \E ind \in SeqsUpTo(ProbeTokens, MaxDecLen) : DecodeDone("caller", ind)

Next ==
    \/ TrainIterMerge
    \/ TrainIterRaise
    \/ TrainReturn
    \/ EncodeStart
    \/ EncodeIter
    \/ EncodeReturn
    \/ DecodeEncoded
    \/ DecodeCaller

Spec == Init /\ [][Next]_vars

---------------------------------------------------------------------------
(* merge on its own, one pass of its while loop per step *)

MergeTokens == {1, 2, 3}

MergeNewTokens == {1, 9}

MergeInputs ==
    {<<s, p, n>> : s \in SeqsUpTo(MergeTokens, MaxSeqLen),
                   p \in MergeTokens \X MergeTokens,
                   n \in MergeNewTokens}
    \cup {<< <<5, 5, 5>>, <<5, 5>>, 7 >>,
          << <<1, 2, 3, 4, 2, 3, 5>>, <<2, 3>>, 9 >>}

InitMerge ==
    /\ \E a \in MergeInputs :
         /\ m_indices = a[1]
         /\ m_pair = a[2]
         /\ m_new_index = a[3]
    /\ m_i = 0
    /\ m_new_indices = <<>>
    /\ pc = "merge"
    /\ err = "none"
    /\ string = <<>>
    /\ num_merges = 0
    /\ indices = <<>>
    /\ merges = <<>>
    /\ vocab = BaseVocab
    /\ i = 0
    /\ counts = <<>>
    /\ pair = NoPair
    /\ text = <<>>
    /\ enc_indices = <<>>
    /\ enc_k = 0
    /\ dec_src = "none"
    /\ dec_in = <<>>
    /\ dec_out = Outcome("none", "none", "none", <<>>)

MergeLoop ==
    /\ pc = "merge"
    /\ m_i < Len(m_indices)
    /\ LET s == MergeStep(m_indices, m_pair, m_new_index, m_i, m_new_indices)
       IN /\ m_i' = s.i
          /\ m_new_indices' = s.new_indices
    /\ UNCHANGED <<m_indices, m_pair, m_new_index, pc, err>>
    /\ UNCHANGED <<trainVars, encVars, decVars>>

MergeReturn ==
    /\ pc = "merge"
    /\ ~(m_i < Len(m_indices))
    /\ pc' = "merged"
    /\ UNCHANGED <<mergeVars, err, trainVars, encVars, decVars>>

NextMerge ==
    \/ MergeLoop
    \/ MergeReturn

SpecMerge == InitMerge /\ [][NextMerge]_vars

---------------------------------------------------------------------------
(* Properties *)

Learned(t) == t >= BaseVocabSize

TrainRaised == pc = "raised" /\ err = "ValueError"

Returned(s) == Outcome("returned", "none", "none", s)

\* C1: whenever decode is given what encode returned for a string, under
\* params that train_bpe returned, it returns that string.
RoundTrip ==
    dec_src = "encode" => dec_out = Returned(text)

RoundTripWitness ==
    /\ pc = "decoded"
    /\ dec_src = "encode"
    /\ \E n \in 1..Len(dec_in) : Learned(dec_in[n])
    /\ \E n \in 1..Len(text) : text[n] >= 128
    /\ Len(merges) >= 2
    /\ dec_out = Returned(text)

\* C2: training on the empty corpus never raises, for any num_merges, and
\* returns the 256 single-byte entries and no merge rule.
EmptyCorpusTrains ==
    string = <<>> =>
        /\ ~TrainRaised
        /\ (pc = "trained" => vocab = BaseVocab /\ merges = <<>>)

\* C3: training on a non-empty corpus never ends in an error: an iteration
\* that finds no adjacent pair to count ends the loop and training returns.
NonEmptyCorpusTrains ==
    string # <<>> => ~TrainRaised

\* number of positions of ind at which the adjacent pair p stands
PairCount(ind, p) ==
    Cardinality({n \in 1..(Len(ind) - 1) : ind[n] = p[1] /\ ind[n + 1] = p[2]})

\* leftmost position of ind at which the adjacent pair p stands
FirstOccurrence(ind, p) ==
    CHOOSE n \in 1..(Len(ind) - 1) :
        /\ ind[n] = p[1] /\ ind[n + 1] = p[2]
        /\ \A m \in 1..(n - 1) : ~(ind[m] = p[1] /\ ind[m + 1] = p[2])

AdjacentPairs(ind) == {<<ind[n], ind[n + 1]>> : n \in 1..(Len(ind) - 1)}

\* C4: the pair an iteration of training selects has the largest adjacent
\* pair count in the token list the iteration started with, and every other
\* pair of that count first occurs further right.
TieBreak ==
    [][ i' = i + 1 =>
          /\ pair' \in AdjacentPairs(indices)
          /\ \A q \in AdjacentPairs(indices) :
                /\ PairCount(indices, q) <= PairCount(indices, pair')
                /\ (q # pair' /\ PairCount(indices, q) = PairCount(indices, pair'))
                      => FirstOccurrence(indices, pair') < FirstOccurrence(indices, q)
      ]_vars

\* an iteration chose among tied pairs, none of them the first pair counted
TieBreakWitness ==
    /\ i >= 1
    /\ \E n, m \in 2..Len(counts) :
          /\ n < m
          /\ counts[n].key = pair
          /\ counts[n].value = counts[m].value
          /\ counts[1].value < counts[n].value

\* position n (1-based) of s starts an occurrence of p that a left-to-right
\* scan without overlap takes
RECURSIVE Taken(_, _, _)
Taken(s, p, n) ==
    /\ n >= 1
    /\ n + 1 <= Len(s)
    /\ s[n] = p[1]
    /\ s[n + 1] = p[2]
    /\ ~Taken(s, p, n - 1)

RECURSIVE ReplaceUpTo(_, _, _, _)
ReplaceUpTo(s, p, new, n) ==
    IF n = 0 THEN <<>>
    ELSE ReplaceUpTo(s, p, new, n - 1) \o
         (IF Taken(s, p, n) THEN <<new>>
          ELSE IF Taken(s, p, n - 1) THEN <<>>
          ELSE <<s[n]>>)

\* every taken occurrence replaced by new, everything else kept
LeftmostReplace(s, p, new) == ReplaceUpTo(s, p, new, Len(s))

\* C5: at every cursor position merge has built the leftmost-first
\* non-overlapping replacement of the pair in the elements before the
\* cursor, and it returns that replacement of the whole list; merge([5,5,5],(5,5),7) = [7,5] and
\* merge([1,2,3,4,2,3,5],(2,3),9) = [1,9,4,9,5]; and when new_index is
\* neither element of the pair the result holds no adjacent occurrence of it.
MergeIsLeftmostReplace ==
    /\ pc = "merge" =>
          /\ ~Taken(m_indices, m_pair, m_i)
          /\ m_new_indices = ReplaceUpTo(m_indices, m_pair, m_new_index, m_i)
    /\ pc = "merged" =>
        /\ m_new_indices = LeftmostReplace(m_indices, m_pair, m_new_index)
        /\ m_new_indices = merge(m_indices, m_pair, m_new_index)
        /\ (m_indices = <<5, 5, 5>> /\ m_pair = <<5, 5>> /\ m_new_index = 7)
              => m_new_indices = <<7, 5>>
        /\ (m_indices = <<1, 2, 3, 4, 2, 3, 5>> /\ m_pair = <<2, 3>>
            /\ m_new_index = 9)
              => m_new_indices = <<1, 9, 4, 9, 5>>
        /\ (m_new_index # m_pair[1] /\ m_new_index # m_pair[2])
              => m_pair \notin AdjacentPairs(m_new_indices)

MergeWitness ==
    /\ pc = "merged"
    /\ m_indices = <<5, 5, 5>>
    /\ m_pair = <<5, 5>>
    /\ m_new_index = 7
    /\ m_new_indices = <<7, 5>>

VocabularyWellFormed ==
    /\ \A t \in 0..(BaseVocabSize - 1) : t \in DOMAIN vocab /\ vocab[t] = <<t>>
    /\ \A n \in 1..Len(merges) :
          /\ merges[n].value \in DOMAIN vocab
          /\ vocab[merges[n].value] =
                vocab[merges[n].key[1]] \o vocab[merges[n].key[2]]

\* C6: before and after every step vocab[t] is the byte t for t in 0..255
\* and the entry of every learned token is the concatenation of the entries
\* of the pair it was made from; no step changes or removes an entry.
VocabularyInvariant ==
    [][ /\ VocabularyWellFormed
        /\ VocabularyWellFormed'
        /\ \A t \in DOMAIN vocab : t \in DOMAIN vocab' /\ vocab'[t] = vocab[t]
      ]_vars

\* training returned a token made from a learned token and a byte
VocabularyWitness ==
    /\ pc = "trained"
    /\ \E n \in 1..Len(merges) :
          /\ Learned(merges[n].key[1])
          /\ ~Learned(merges[n].key[2])
          /\ Len(vocab[merges[n].value]) >= 3

\* C7: decode of a token list that holds a token id absent from vocab fails
\* with an unknown-token error raised where that token is looked up.
UnknownTokenRaisesAtLookup ==
    (dec_src # "none" /\ \E n \in 1..Len(dec_in) : dec_in[n] \notin DOMAIN vocab)
        => /\ dec_out.kind = "raised"
           /\ dec_out.error = "UnknownTokenError"
           /\ dec_out.at = "lookup"

\* C8: no iteration selects a pair that is already a key of merges: after
\* j iterations merges has j entries, with tokens 256, ..., 255+j in
\* insertion order, and vocab has 256+j entries; training that returns has
\* learned num_merges rules.
TokenAssignment ==
    /\ Len(merges) = i
    /\ i >= 1 => merges[i].key = pair
    /\ Cardinality(Keys(merges)) = i
    /\ \A n \in 1..Len(merges) : merges[n].value = BaseVocabSize + n - 1
    /\ Cardinality(DOMAIN vocab) = BaseVocabSize + i
    /\ pc \in {"trained", "encode", "encoded", "decoded"} =>
          /\ Len(merges) = num_merges
          /\ Cardinality(DOMAIN vocab) = BaseVocabSize + num_merges

TokenAssignmentWitness ==
    /\ pc = "trained"
    /\ num_merges >= 3
    /\ Len(merges) = num_merges
    /\ merges[3].value = BaseVocabSize + 2

\* the rule of m that training gave token t
RuleOfToken(m, t) == m[CHOOSE n \in 1..Len(m) : m[n].value = t]

\* b after the rules of the first k tokens training assigned, oldest first
RECURSIVE ApplyLearned(_, _, _)
ApplyLearned(b, m, k) ==
    IF k = 0 THEN b
    ELSE LET r == RuleOfToken(m, BaseVocabSize + k - 1)
         IN merge(ApplyLearned(b, m, k - 1), r.key, r.value)

\* b after the last k rules of m, newest first
RECURSIVE ApplyReversed(_, _, _)
ApplyReversed(b, m, k) ==
    IF k = 0 THEN b
    ELSE LET r == m[Len(m) + 1 - k]
         IN merge(ApplyReversed(b, m, k - 1), r.key, r.value)

\* C9: encode applies the merge rules in the order training learned them:
\* after k passes of its loop it holds the bytes of the text rewritten by
\* the rules of tokens 256, ..., 255+k in that order, and it returns after
\* all of them.  (That some corpus, num_merges and text make the reverse
\* order give another result is OrderWitness.)
EncodeInLearnedOrder ==
    pc \in {"encode", "encoded"} =>
        /\ enc_indices = ApplyLearned(Utf8Encode(text), merges, enc_k)
        /\ (pc = "encoded" => enc_k = Len(merges))

OrderWitness ==
    /\ pc = "encoded"
    /\ Len(merges) >= 2
    /\ ApplyReversed(Utf8Encode(text), merges, Len(merges)) # enc_indices

\* C10: encode of the training corpus, under the params training returned,
\* returns the token list training ended with, all of whose tokens are
\* keys of vocab.
EncodeReproducesTraining ==
    (pc = "encoded" /\ text = string) =>
        /\ enc_indices = indices
        /\ \A n \in 1..Len(enc_indices) : enc_indices[n] \in DOMAIN vocab

EncodeReproducesWitness ==
    /\ pc = "encoded"
    /\ text = string
    /\ Len(merges) >= 2
    /\ \E n \in 1..Len(enc_indices) : Learned(enc_indices[n])
    /\ enc_indices = indices

===========================================================================
